---- MODULE Spec2Model ----
(***************************************************************************)
(* Model of dbtools' Table (src/table.py): a handle on one table of an     *)
(* sqlite database, with create / drop / insert / select / __getitem__.    *)
(*                                                                         *)
(* Python values are records  [t, v, s, items]  tagged by their type t:    *)
(*   "int" (v), "None", "str" (s), "float", "object", "list" (items),      *)
(*   "dict" (items = sequence of "pair"s: s the key, items[1] the value),  *)
(*   "slice" (items = <<start, stop, step>>).                              *)
(* The store (one sqlite file holding the table `name`) is the record db.  *)
(***************************************************************************)
EXTENDS Integers, Sequences, FiniteSets, TLC

VARIABLES db, tbl, last

vars == <<db, tbl, last>>

(* ------------------------------ bounds --------------------------------- *)
MaxCols == 2
MaxRows == 2

(* --------------------------- Python values ----------------------------- *)
PyNone == [t |-> "None", v |-> 0, s |-> "", items |-> <<>>]
PyInt(n) == [t |-> "int", v |-> n, s |-> "", items |-> <<>>]
PyStr(x) == [t |-> "str", v |-> 0, s |-> x, items |-> <<>>]
PyFloat == [t |-> "float", v |-> 0, s |-> "", items |-> <<>>]
PyObject == [t |-> "object", v |-> 0, s |-> "", items |-> <<>>]
PyList(xs) == [t |-> "list", v |-> 0, s |-> "", items |-> xs]
PyPair(k, x) == [t |-> "pair", v |-> 0, s |-> k, items |-> <<x>>]
PyDict(kvs) == [t |-> "dict", v |-> 0, s |-> "", items |-> kvs]
PySlice(a, b, c) == [t |-> "slice", v |-> 0, s |-> "", items |-> <<a, b, c>>]

\* hasattr(x, "keys")
HasKeys(x) == x.t = "dict"
\* hasattr(x, "__iter__"): Python 2, where str has no __iter__
HasIter(x) == x.t \in {"dict", "list"}

\* the sequences over S of length lo..hi
SeqsOf(S, lo, hi) == UNION {[1..n -> S] : n \in lo..hi}
\* the sequences over S without repetition, of length lo..hi
DistinctSeqsOf(S, lo, hi) ==
    {q \in SeqsOf(S, lo, hi) : \A i, j \in 1..Len(q) : q[i] = q[j] => i = j}
Range(q) == {q[i] : i \in 1..Len(q)}

\* list.index(x): the first position of x (0 when absent)
IndexOf(q, x) ==
    IF \E i \in 1..Len(q) : q[i] = x
    THEN CHOOSE i \in 1..Len(q) : q[i] = x /\ \A j \in 1..(i - 1) : q[j] # x
    ELSE 0
\* q without its element at position i
RemoveAt(q, i) ==
    IF i \notin 1..Len(q) THEN q
    ELSE [j \in 1..(Len(q) - 1) |-> IF j < i THEN q[j] ELSE q[j + 1]]
\* list.remove(x): without the first occurrence of x
Remove(q, x) == RemoveAt(q, IndexOf(q, x))
\* list.insert(i, x) with the 1-based position i
InsertAt(q, i, x) ==
    [j \in 1..(Len(q) + 1) |-> IF j < i THEN q[j] ELSE IF j = i THEN x ELSE q[j - 1]]

(* ------------------------------ the store ------------------------------ *)
NoTable == [exists |-> FALSE, schema |-> <<>>, rows |-> <<>>, seq |-> 0]
NoFrame == [index |-> PyNone, columns |-> <<>>, idx |-> <<>>, data |-> <<>>]
NoWhere == [given |-> FALSE, tmpl |-> <<>>, args |-> PyNone]
NoHandle == [live |-> FALSE, columns |-> <<>>, pk |-> PyNone, repr |-> <<>>]

ColumnNames(d) == [i \in 1..Len(d.schema) |-> d.schema[i].name]

\* PRAGMA table_info: (name, declared type, pk flag) per column, none for a
\* missing table; sqlite reads the type token NULL as a constraint, not a type
TableInfo(d) ==
    IF d.exists
    THEN [i \in 1..Len(d.schema) |->
            <<d.schema[i].name,
              IF d.schema[i].type = "NULL" THEN "" ELSE d.schema[i].type,
              IF d.schema[i].pk THEN 1 ELSE 0>>]
    ELSE <<>>

\* Reflect that takes the first column for the primary key when there is one
ReflectFirst(d) ==
    LET meta == TableInfo(d)
        columns == [i \in 1..Len(meta) |-> meta[i][1]]
        pks == {i \in 1..Len(meta) : meta[i][3] # 0}
        pk == IF Cardinality(pks) = 1 THEN PyStr(columns[1]) ELSE PyNone
    IN IF Len(meta) = 0 THEN [status |-> "IndexError", handle |-> NoHandle]
       ELSE IF Cardinality(pks) > 1 THEN [status |-> "ValueError", handle |-> NoHandle]
       ELSE [status |-> "ok",
             handle |-> [live |-> TRUE, columns |-> columns, pk |-> pk, repr |-> <<>>]]

\* Table.__init__: reflect the schema into a handle
Reflect(d) ==
    LET meta == TableInfo(d)
        columns == [i \in 1..Len(meta) |-> meta[i][1]]
        pks == {i \in 1..Len(meta) : meta[i][3] # 0}
        pk == IF Cardinality(pks) = 1
              THEN PyStr(columns[CHOOSE i \in pks : TRUE])
              ELSE PyNone
        args == [i \in 1..Len(meta) |->
                   <<meta[i][1], meta[i][2],
                     IF pk # PyNone /\ i = IndexOf(columns, pk.s)
                     THEN "PRIMARY KEY AUTOINCREMENT" ELSE "">>]
    IN IF Len(meta) = 0 THEN [status |-> "IndexError", handle |-> NoHandle]
       ELSE IF Cardinality(pks) > 1 THEN [status |-> "ValueError", handle |-> NoHandle]
       ELSE [status |-> "ok",
             handle |-> [live |-> TRUE, columns |-> columns, pk |-> pk, repr |-> args]]

\* SqlType that takes any other type for a BLOB instead of rejecting it
SqlTypeLenient(dtype) ==
    IF dtype = "NoneType" THEN "NULL"
    ELSE IF dtype \in {"int", "long"} THEN "INTEGER"
    ELSE IF dtype = "float" THEN "REAL"
    ELSE IF dtype \in {"str", "unicode"} THEN "TEXT"
    ELSE "BLOB"

\* the python type -> SQL type of Table.create ("" for an invalid type)
SqlType(dtype) ==
    IF dtype = "NoneType" THEN "NULL"
    ELSE IF dtype \in {"int", "long"} THEN "INTEGER"
    ELSE IF dtype = "float" THEN "REAL"
    ELSE IF dtype \in {"str", "unicode"} THEN "TEXT"
    ELSE IF dtype = "buffer" THEN "BLOB"
    ELSE ""

\* is column i of dtypes the designated primary key
IsPrimaryKey(dtypes, primary_key, i) ==
    primary_key # PyNone /\ primary_key = PyStr(dtypes[i][1])

\* the column clauses of Table.create, or the error raised while building them:
\* the loop stops at the first column that is invalid
CreateArgs(dtypes, primary_key) ==
    LET bad(i) == \/ SqlType(dtypes[i][2]) = ""
                  \/ /\ IsPrimaryKey(dtypes, primary_key, i)
                     /\ SqlType(dtypes[i][2]) # "INTEGER"
        bads == {i \in 1..Len(dtypes) : bad(i)}
    IN IF bads # {}
       THEN [status |-> "ValueError",
             msg |-> IF SqlType(dtypes[CHOOSE i \in bads : \A j \in bads : i <= j][2]) = ""
                     THEN "invalid data type"
                     ELSE "invalid data type for primary key",
             args |-> <<>>]
       ELSE [status |-> "ok", msg |-> "",
             args |-> [i \in 1..Len(dtypes) |->
                         [name |-> dtypes[i][1],
                          type |-> SqlType(dtypes[i][2]),
                          pk |-> IsPrimaryKey(dtypes, primary_key, i)]]]

\* the store executing CREATE TABLE name(args)
ExecCreate(d, args) ==
    IF \/ d.exists
       \/ Len(args) = 0
       \/ \E i, j \in 1..Len(args) : i # j /\ args[i].name = args[j].name
    THEN [ok |-> FALSE, db |-> d]
    ELSE [ok |-> TRUE,
          db |-> [exists |-> TRUE, schema |-> args, rows |-> <<>>, seq |-> 0]]

\* the store executing DROP TABLE name
ExecDrop(d) ==
    IF d.exists THEN [ok |-> TRUE, db |-> NoTable] ELSE [ok |-> FALSE, db |-> d]

\* ConnExit that commits on an exception too
ConnExitCommit(ok, before, after) == after

\* leaving `with conn:`: commit on a normal exit, roll back on an exception
ConnExit(ok, before, after) == IF ok THEN after ELSE before

(* ----------------------------- the record of a call -------------------- *)
\* op(arg, where | dtypes, pkarg) raised status (msg) or returned frame, after
\* issuing `issued` statements to the store that was `pre`; sel is the column
\* list a select resolved
Call(op, arg, where, dtypes, pkarg, status, msg, issued, pre, sel, frame) ==
    [op |-> op, arg |-> arg, where |-> where, dtypes |-> dtypes, pkarg |-> pkarg,
     status |-> status, msg |-> msg, issued |-> issued, pre |-> pre, sel |-> sel,
     frame |-> frame]

\* no call has returned a result that the caller has yet to take
NoCall == Call("none", PyNone, NoWhere, <<>>, PyNone, "ok", "", 0, NoTable, <<>>, NoFrame)

Init ==
    /\ db = NoTable
    /\ tbl = NoHandle
    /\ last = NoCall

\* the caller takes the result (or the exception) of the call and goes on
Return ==
    /\ last.op # "none"
    /\ last' = NoCall
    /\ UNCHANGED <<db, tbl>>

(* ------------------------------ create / drop -------------------------- *)
\* Table.create(db, name, dtypes, primary_key)
Create(dtypes, primary_key) ==
    /\ last.op = "none"
    /\ LET built == CreateArgs(dtypes, primary_key)
           ex == ExecCreate(db, built.args)
           after == ConnExit(ex.ok, db, ex.db)
           refl == Reflect(after)
       IN IF built.status # "ok"
          THEN /\ last' = Call("create", PyNone, NoWhere, dtypes, primary_key,
                               built.status, built.msg, 0, db, <<>>, NoFrame)
               /\ UNCHANGED <<db, tbl>>
          ELSE IF ~ex.ok
          THEN /\ last' = Call("create", PyNone, NoWhere, dtypes, primary_key,
                               "StorageError", "", 1, db, <<>>, NoFrame)
               /\ UNCHANGED <<db, tbl>>
          ELSE /\ db' = after
               /\ tbl' = IF refl.status = "ok" THEN refl.handle ELSE tbl
               /\ last' = Call("create", PyNone, NoWhere, dtypes, primary_key,
                               refl.status, "", 2, db, <<>>, NoFrame)

\* Table.drop()
Drop ==
    /\ last.op = "none"
    /\ tbl.live
    /\ LET ex == ExecDrop(db)
       IN /\ db' = ConnExit(ex.ok, db, ex.db)
          /\ last' = Call("drop", PyNone, NoWhere, <<>>, PyNone,
                          IF ex.ok THEN "ok" ELSE "StorageError", "", 1, db, <<>>, NoFrame)
          /\ UNCHANGED tbl

(* -------------------------------- insert ------------------------------- *)
\* dict.get(key, None)
DictGet(d, key) ==
    IF \E i \in 1..Len(d.items) : d.items[i].s = key
    THEN d.items[CHOOSE i \in 1..Len(d.items) : d.items[i].s = key].items[1]
    ELSE PyNone

\* the argument parsing of insert: `values` as a list of rows; values[0] of an
\* empty sequence raises IndexError
InsertRows(values) ==
    LET vals == IF values.t = "None" THEN PyDict(<<>>) ELSE values
    IN IF HasKeys(vals) \/ ~HasIter(vals) THEN [status |-> "ok", rows |-> <<vals>>]
       ELSE IF Len(vals.items) = 0 THEN [status |-> "IndexError", rows |-> <<>>]
       ELSE IF ~HasIter(vals.items[1]) THEN [status |-> "ok", rows |-> <<vals>>]
       ELSE [status |-> "ok", rows |-> vals.items]

\* InsertCols that leaves the primary key among the columns
InsertColsKeepPk(t) == t.columns

\* the columns to insert values for: all but the primary key
InsertCols(t) == IF t.pk.t # "None" THEN Remove(t.columns, t.pk.s) ELSE t.columns

\* the entry (the parameters of one INSERT) extracted from one row
InsertEntry(vals, cols) ==
    IF vals.t = "dict"
    THEN [status |-> "ok", msg |-> "",
          entry |-> [i \in 1..Len(cols) |-> DictGet(vals, cols[i])]]
    ELSE IF HasIter(vals)
    THEN IF Len(vals.items) # Len(cols)
         THEN [status |-> "ValueError", msg |-> "expected n values, got m", entry |-> <<>>]
         ELSE [status |-> "ok", msg |-> "", entry |-> <<vals>>]
    ELSE [status |-> "ValueError", msg |-> "expected dict or list/tuple", entry |-> <<>>]

\* the entries of all rows, or the error of the first row that has one
InsertEntries(rows, cols) ==
    LET each == [i \in 1..Len(rows) |-> InsertEntry(rows[i], cols)]
        bads == {i \in 1..Len(rows) : each[i].status # "ok"}
        first == CHOOSE i \in bads : \A j \in bads : i <= j
    IN IF bads # {}
       THEN [status |-> each[first].status, msg |-> each[first].msg, entries |-> <<>>]
       ELSE [status |-> "ok", msg |-> "",
             entries |-> [i \in 1..Len(rows) |-> each[i].entry]]

\* the target string: a question mark per column, NULL for the primary key
InsertTarget(t) ==
    LET qm == [i \in 1..Len(InsertCols(t)) |-> "?"]
    IN IF t.pk.t # "None" THEN InsertAt(qm, IndexOf(t.columns, t.pk.s), "NULL") ELSE qm

\* a value sqlite3 can bind to a placeholder
Bindable(x) == x.t \in {"None", "int", "float", "str"}

\* the store executing INSERT INTO name VALUES (qm) with the parameters entry:
\* the i-th question mark takes the i-th parameter, and a NULL primary key
\* takes the next value of the AUTOINCREMENT sequence
ExecInsert(d, qm, entry) ==
    LET marks == {i \in 1..Len(qm) : qm[i] = "?"}
        param(i) == entry[Cardinality({j \in marks : j <= i})]
        given == [i \in 1..Len(qm) |-> IF qm[i] = "?" THEN param(i) ELSE PyNone]
        rowid == d.seq + 1
        row == [i \in 1..Len(qm) |->
                  IF d.schema[i].pk /\ given[i].t = "None" THEN PyInt(rowid) ELSE given[i]]
        keyed == \E i \in 1..Len(qm) : d.schema[i].pk
    IN IF \/ ~d.exists
          \/ Len(qm) # Len(d.schema)
          \/ Cardinality(marks) # Len(entry)
          \/ \E i \in 1..Len(entry) : ~Bindable(entry[i])
       THEN [ok |-> FALSE, db |-> d]
       ELSE [ok |-> TRUE,
             db |-> [d EXCEPT !.rows = Append(@, row),
                              !.seq = IF keyed THEN rowid ELSE @]]

\* the loop of executions on one connection: stops at the first that fails
RECURSIVE ExecAll(_, _, _, _)
ExecAll(d, qm, entries, k) ==
    IF k > Len(entries) THEN [ok |-> TRUE, db |-> d, issued |-> Len(entries)]
    ELSE LET ex == ExecInsert(d, qm, entries[k])
         IN IF ex.ok THEN ExecAll(ex.db, qm, entries, k + 1)
            ELSE [ok |-> FALSE, db |-> d, issued |-> k]

\* Table.insert(values)
Insert(values) ==
    /\ last.op = "none"
    /\ tbl.live
    /\ LET norm == InsertRows(values)
           built == InsertEntries(norm.rows, InsertCols(tbl))
           run == ExecAll(db, InsertTarget(tbl), built.entries, 1)
       IN /\ Len(db.rows) + Len(norm.rows) <= MaxRows
          /\ IF norm.status # "ok"
             THEN /\ last' = Call("insert", values, NoWhere, <<>>, PyNone,
                                  norm.status, "", 0, db, <<>>, NoFrame)
                  /\ UNCHANGED <<db, tbl>>
             ELSE IF built.status # "ok"
             THEN /\ last' = Call("insert", values, NoWhere, <<>>, PyNone,
                                  built.status, built.msg, 0, db, <<>>, NoFrame)
                  /\ UNCHANGED <<db, tbl>>
             ELSE /\ db' = ConnExit(run.ok, db, run.db)
                  /\ last' = Call("insert", values, NoWhere, <<>>, PyNone,
                                  IF run.ok THEN "ok" ELSE "StorageError", "",
                                  run.issued, db, <<>>, NoFrame)
                  /\ UNCHANGED tbl

(* -------------------------------- select ------------------------------- *)
\* one comparison of a WHERE clause on a stored cell; a NULL compares false
Compare(op, cell, x) ==
    /\ cell.t = "int"
    /\ x.t = "int"
    /\ IF op = "=" THEN cell.v = x.v
       ELSE IF op = "<" THEN cell.v < x.v
       ELSE cell.v >= x.v

\* the store executing SELECT names FROM name [WHERE tmpl] with the parameters
\* args: the i-th placeholder takes the i-th parameter
ExecSelect(d, names, tmpl, args) ==
    LET known == Range(ColumnNames(d))
        at(c) == IndexOf(ColumnNames(d), c)
        match(r) == \A i \in 1..Len(tmpl) : Compare(tmpl[i].op, r[at(tmpl[i].col)], args[i])
        hits == SelectSeq(d.rows, match)
    IN IF \/ ~d.exists
          \/ Len(names) = 0
          \/ \E i \in 1..Len(names) : names[i] \notin known
          \/ \E i \in 1..Len(tmpl) : tmpl[i].col \notin known
          \/ Len(tmpl) # Len(args)
          \/ \E i \in 1..Len(args) : ~Bindable(args[i])
       THEN [ok |-> FALSE, rows |-> <<>>]
       ELSE [ok |-> TRUE,
             rows |-> [k \in 1..Len(hits) |->
                         [i \in 1..Len(names) |-> hits[k][at(names[i])]]]]

\* the columns argument of select as a list
SelectCols(t, columns) ==
    IF columns.t = "None" THEN [i \in 1..Len(t.columns) |-> PyStr(t.columns[i])]
    ELSE IF ~HasIter(columns) THEN <<columns>>
    ELSE columns.items

\* ResolveCols that prepends the primary key whether or not it is in the list
ResolveColsAlways(t, cols) == InsertAt(cols, 1, t.pk)

\* the list select resolves: the primary key first when it is not in the list
ResolveCols(t, cols) ==
    IF \A i \in 1..Len(cols) : cols[i] # t.pk THEN InsertAt(cols, 1, t.pk) ELSE cols

\* the parameters of the WHERE clause as a sequence
WhereArgs(where) == IF ~HasIter(where.args) THEN <<where.args>> ELSE where.args.items

\* pandas.DataFrame.from_records(rows, columns=cols, index=index)
FromRecords(rows, cols, index) ==
    LET at == IndexOf(cols, index)
    IN IF index.t = "None"
       THEN [index |-> index,
             columns |-> [i \in 1..Len(cols) |-> cols[i].s],
             idx |-> [k \in 1..Len(rows) |-> PyInt(k - 1)],
             data |-> rows]
       ELSE [index |-> index,
             columns |-> [i \in 1..(Len(cols) - 1) |-> RemoveAt(cols, at)[i].s],
             idx |-> [k \in 1..Len(rows) |-> rows[k][at]],
             data |-> [k \in 1..Len(rows) |-> RemoveAt(rows[k], at)]]

\* Table.select(columns, where) on the handle t and the store d
DoSelect(t, d, columns, where) ==
    LET cols == ResolveCols(t, SelectCols(t, columns))
        names == [i \in 1..Len(cols) |-> cols[i].s]
        ex == ExecSelect(d, names, where.tmpl, IF where.given THEN WhereArgs(where) ELSE <<>>)
        index == IF \E i \in 1..Len(cols) : cols[i] = t.pk THEN t.pk ELSE PyNone
    IN IF \E i \in 1..Len(cols) : cols[i].t # "str"
       THEN [status |-> "TypeError", msg |-> "join: expected string", issued |-> 0,
             sel |-> cols, frame |-> NoFrame]
       ELSE IF ~ex.ok
       THEN [status |-> "StorageError", msg |-> "", issued |-> 1,
             sel |-> cols, frame |-> NoFrame]
       ELSE [status |-> "ok", msg |-> "", issued |-> 1,
             sel |-> cols, frame |-> FromRecords(ex.rows, cols, index)]

\* Table.select(columns, where)
Select(columns, where) ==
    /\ last.op = "none"
    /\ tbl.live
    /\ LET r == DoSelect(tbl, db, columns, where)
       IN last' = Call("select", columns, where, <<>>, PyNone,
                       r.status, r.msg, r.issued, db, r.sel, r.frame)
    /\ UNCHANGED <<db, tbl>>

(* ------------------------------ __getitem__ ---------------------------- *)
Where1(col, op, x) == [given |-> TRUE, tmpl |-> <<[col |-> col, op |-> op]>>, args |-> x]

\* SliceWhere that binds the two bounds in the order (start, stop)
SliceWhereSwapped(pk, start, stop) ==
    IF start.t = "None" /\ stop.t = "None" THEN NoWhere
    ELSE IF start.t = "None" THEN Where1(pk, "<", stop)
    ELSE IF stop.t = "None" THEN Where1(pk, ">=", start)
    ELSE [given |-> TRUE,
          tmpl |-> <<[col |-> pk, op |-> "<"], [col |-> pk, op |-> ">="]>>,
          args |-> PyList(<<start, stop>>)]

\* the filter of a slice key: start <= pk < stop
SliceWhere(pk, start, stop) ==
    IF start.t = "None" /\ stop.t = "None" THEN NoWhere
    ELSE IF start.t = "None" THEN Where1(pk, "<", stop)
    ELSE IF stop.t = "None" THEN Where1(pk, ">=", start)
    ELSE [given |-> TRUE,
          tmpl |-> <<[col |-> pk, op |-> "<"], [col |-> pk, op |-> ">="]>>,
          args |-> PyList(<<stop, start>>)]

Raised(status, msg) ==
    [status |-> status, msg |-> msg, issued |-> 0, sel |-> <<>>, frame |-> NoFrame]

\* Table.__getitem__(key) on the handle t and the store d
DoGetItem(t, d, key) ==
    IF key.t = "int"
    THEN IF t.pk.t = "None" THEN Raised("ValueError", "no primary key column")
         ELSE DoSelect(t, d, PyNone, Where1(t.pk.s, "=", key))
    ELSE IF key.t = "slice"
    THEN IF t.pk.t = "None" THEN Raised("ValueError", "no primary key column")
         ELSE IF key.items[3].t # "None" /\ key.items[3] # PyInt(1)
         THEN Raised("ValueError", "cannot handle step size > 1")
         ELSE DoSelect(t, d, PyNone, SliceWhere(t.pk.s, key.items[1], key.items[2]))
    ELSE IF key.t = "str" THEN DoSelect(t, d, key, NoWhere)
    ELSE IF ~HasIter(key) THEN Raised("TypeError", "object is not iterable")
    ELSE IF \A i \in 1..Len(key.items) : key.items[i].t = "str"
    THEN DoSelect(t, d, key, NoWhere)
    ELSE Raised("ValueError", "invalid key")

\* Table.__getitem__(key)
GetItem(key) ==
    /\ last.op = "none"
    /\ tbl.live
    /\ LET r == DoGetItem(tbl, db, key)
       IN last' = Call("getitem", key, NoWhere, <<>>, PyNone,
                       r.status, r.msg, r.issued, db, r.sel, r.frame)
    /\ UNCHANGED <<db, tbl>>

(* ------------------------------ the callers ---------------------------- *)
Labels == {"id", "x", "y"}
Names == {PyStr(l) : l \in Labels}
Keys == {PyInt(k) : k \in 0..(MaxRows + 1)}

\* tables of integer columns, with or without a primary key
DataSpecs == DistinctSeqsOf(Labels \X {"int"}, 0, MaxCols)
DataKeys == {PyNone} \cup Names

\* rows as mappings: any of x and y, bound to a number or to an object that
\* sqlite3 cannot bind
DictVals == {PyInt(1), PyObject}
InsertDicts ==
    {PyDict(<<>>)}
    \cup {PyDict(<<PyPair(k, x)>>) : k \in {"x", "y"}, x \in DictVals}
    \cup {PyDict(<<PyPair("x", x), PyPair("y", y)>>) : x \in DictVals, y \in DictVals}
\* rows by position
InsertLists == {PyList(q) : q \in SeqsOf({PyInt(1), PyInt(2)}, 0, MaxCols)}
InsertElems == InsertDicts \cup InsertLists \cup {PyInt(1)}
\* the rows of a bulk insert
BulkElems ==
    {PyDict(<<>>), PyDict(<<PyPair("x", PyInt(1))>>), PyDict(<<PyPair("x", PyObject)>>),
     PyInt(1)}
    \cup {PyList([i \in 1..n |-> PyInt(i)]) : n \in 0..MaxCols}
InsertValues ==
    {PyNone} \cup InsertElems \cup {PyList(q) : q \in SeqsOf(BulkElems, 1, MaxRows)}

SelectColumns ==
    {PyNone} \cup Names \cup {PyList(q) : q \in DistinctSeqsOf(Names, 0, MaxCols)}
SelectWheres == {NoWhere, Where1("id", "<", PyInt(2))}

Slices ==
    {PySlice(a, b, c) : a \in {PyNone} \cup Keys, b \in {PyNone} \cup Keys,
                        c \in {PyNone, PyInt(1), PyInt(2)}}
BadKeys ==
    {PyNone, PyFloat, PyObject, PyList(<<PyInt(1)>>),
     PyList(<<PyStr("x"), PyInt(1)>>), PyList(<<PyInt(1), PyStr("x")>>)}
ItemKeys ==
    Keys \cup Slices \cup Names
    \cup {PyList(q) : q \in DistinctSeqsOf(Names, 0, MaxCols)} \cup BadKeys

Next ==
    \/ \E dtypes \in DataSpecs, primary_key \in DataKeys : Create(dtypes, primary_key)
    \/ Drop
    \/ \E values \in InsertValues : Insert(values)
    \/ \E columns \in SelectColumns, where \in SelectWheres : Select(columns, where)
    \/ \E key \in ItemKeys : GetItem(key)
    \/ Return

Spec == Init /\ [][Next]_vars

(* ======================================================================= *)
(*                              the claims                                 *)
(* ======================================================================= *)
\* a positional row: a sequence of scalar values
IsScalarRow(x) == x.t = "list" /\ \A i \in 1..Len(x.items) : ~HasIter(x.items[i])
\* a bulk sequence: one or more rows, each a mapping or a positional row
IsBulk(x) ==
    /\ x.t = "list"
    /\ Len(x.items) > 0
    /\ \A i \in 1..Len(x.items) : x.items[i].t = "dict" \/ IsScalarRow(x.items[i])
\* the number of columns other than the primary key
NCol == Len(tbl.columns) - (IF tbl.pk.t = "None" THEN 0 ELSE 1)
\* the position of the primary key among the columns
PkAt == IndexOf(tbl.columns, tbl.pk.s)
\* the handle is of the table that was in the store when the call was made
OnLiveTable == tbl.live /\ last.pre.exists /\ tbl.columns = ColumnNames(last.pre)
\* the rows of the insert that returned, as the spec classifies its argument
RowsGiven == IF IsBulk(last.arg) THEN last.arg.items ELSE <<last.arg>>
\* the stored row of a positional row: its values in column order, the primary
\* key (if any) assigned by the store
StoredAs(row, stored) ==
    /\ Len(stored) = Len(tbl.columns)
    /\ RemoveAt(stored, PkAt) = row.items
    /\ tbl.pk.t # "None" => stored[PkAt].t = "int"

\* C1: an insert with a positional row of the wrong length (the whole argument,
\* or any element of a bulk sequence) fails with a ValueError that reports the
\* expected and the actual count, and leaves the stored table unchanged.
C1_WrongLengthRejected ==
    (/\ last.op = "insert"
     /\ \/ IsScalarRow(last.arg) /\ Len(last.arg.items) # NCol
        \/ /\ IsBulk(last.arg)
           /\ \E i \in 1..Len(last.arg.items) :
                 /\ IsScalarRow(last.arg.items[i])
                 /\ Len(last.arg.items[i].items) # NCol)
    => /\ last.status = "ValueError"
       /\ last.msg = "expected n values, got m"
       /\ db = last.pre

\* C2: an insert of positional rows of the right length (one row, or a bulk
\* sequence of them) succeeds and stores one row per given row, holding the
\* i-th value in the i-th column that is not the primary key.
C2_PositionalRowStored ==
    (/\ last.op = "insert"
     /\ OnLiveTable
     /\ \/ IsScalarRow(last.arg)
        \/ IsBulk(last.arg) /\ \A i \in 1..Len(last.arg.items) : IsScalarRow(last.arg.items[i])
     /\ \A i \in 1..Len(RowsGiven) : Len(RowsGiven[i].items) = NCol)
    => /\ last.status = "ok"
       /\ Len(db.rows) = Len(last.pre.rows) + Len(RowsGiven)
       /\ SubSeq(db.rows, 1, Len(last.pre.rows)) = last.pre.rows
       /\ \A i \in 1..Len(RowsGiven) :
             StoredAs(RowsGiven[i], db.rows[Len(last.pre.rows) + i])

\* what select() of all columns returns on the store d
SelectAll(d) == DoSelect(tbl, d, PyNone, NoWhere)

\* C3: on a table with an integer primary key, every insert of one mapping
\* succeeds and adds exactly one row to what select() returns: after the rows
\* returned before, a row holding the mapping's values (NULL for a column the
\* mapping does not name) under a primary key that is not NULL and greater than
\* every earlier one; the primary keys returned are strictly increasing.
C3_MappingRoundTrip ==
    (/\ last.op = "insert"
     /\ last.arg.t = "dict"
     /\ OnLiveTable
     /\ tbl.pk.t # "None"
     /\ \A i \in 1..Len(tbl.columns) : Bindable(DictGet(last.arg, tbl.columns[i])))
    => LET before == SelectAll(last.pre).frame
           after == SelectAll(db).frame
           n == Len(before.idx)
       IN /\ last.status = "ok"
          /\ SelectAll(db).status = "ok"
          /\ after.index = tbl.pk
          /\ Len(after.idx) = n + 1
          /\ SubSeq(after.idx, 1, n) = before.idx
          /\ SubSeq(after.data, 1, n) = before.data
          /\ after.data[n + 1] =
                [i \in 1..Len(after.columns) |-> DictGet(last.arg, after.columns[i])]
          /\ \A k \in 1..(n + 1) : after.idx[k].t = "int"
          /\ \A j, k \in 1..(n + 1) : j < k => after.idx[j].v < after.idx[k].v

C3_Witness ==
    /\ last.op = "insert"
    /\ last.arg.t = "dict"
    /\ last.status = "ok"
    /\ tbl.pk.t # "None"
    /\ Len(last.pre.rows) >= 1
    /\ \E i \in 1..Len(tbl.columns) : DictGet(last.arg, tbl.columns[i]).t = "int"
    /\ \E i \in 1..Len(tbl.columns) :
          tbl.columns[i] # tbl.pk.s /\ DictGet(last.arg, tbl.columns[i]).t = "None"

\* the columns a select asked for are columns of the table
AsksExisting ==
    \A i \in 1..Len(SelectCols(tbl, last.arg)) :
       /\ SelectCols(tbl, last.arg)[i].t = "str"
       /\ SelectCols(tbl, last.arg)[i].s \in Range(tbl.columns)

\* C4: on a table without a primary key, select of existing columns (all of
\* them, one name, or a list of names) prepends nothing: it succeeds, the
\* result's columns are the requested ones in the requested order, and the
\* rows are positionally indexed.
C4_NoPkSelect ==
    (/\ last.op = "select"
     /\ OnLiveTable
     /\ tbl.pk.t = "None"
     /\ ~last.where.given
     /\ AsksExisting
     /\ Len(SelectCols(tbl, last.arg)) > 0)
    => /\ last.status = "ok"
       /\ last.sel = SelectCols(tbl, last.arg)
       /\ last.frame.columns = [i \in 1..Len(last.sel) |-> last.sel[i].s]
       /\ last.frame.index.t = "None"
       /\ last.frame.idx = [k \in 1..Len(last.frame.data) |-> PyInt(k - 1)]

InSlice(r, start, stop) ==
    /\ start.t = "None" \/ r[PkAt].v >= start.v
    /\ stop.t = "None" \/ r[PkAt].v < stop.v

\* the stored rows within the slice that was asked for
SliceRows ==
    LET within(r) == InSlice(r, last.arg.items[1], last.arg.items[2])
    IN SelectSeq(last.pre.rows, within)

\* C6: on a table with a primary key, handle[start:stop] with the step unset
\* or 1 returns exactly the stored rows with start <= pk < stop (a bound that is
\* not given does not restrict); with any other step it fails with a
\* ValueError and issues no query.
C6_SliceRange ==
    (/\ last.op = "getitem"
     /\ last.arg.t = "slice"
     /\ OnLiveTable
     /\ tbl.pk.t # "None")
    => IF last.arg.items[3].t = "None" \/ last.arg.items[3] = PyInt(1)
       THEN /\ last.status = "ok"
            /\ last.issued = 1
            /\ last.frame.index = tbl.pk
            /\ last.frame.idx = [k \in 1..Len(SliceRows) |-> SliceRows[k][PkAt]]
            /\ last.frame.data = [k \in 1..Len(SliceRows) |-> RemoveAt(SliceRows[k], PkAt)]
       ELSE /\ last.status = "ValueError"
            /\ last.issued = 0

C6_Witness ==
    /\ last.op = "getitem"
    /\ last.arg.t = "slice"
    /\ last.arg.items[1].t = "int"
    /\ last.arg.items[2].t = "int"
    /\ last.status = "ok"
    /\ Len(last.frame.idx) >= 1
    /\ Len(last.frame.idx) < Len(last.pre.rows)

\* the create that returned named an invalid type, or a primary key that is
\* not an integer column
BadColumnSpec ==
    \E i \in 1..Len(last.dtypes) :
       \/ last.dtypes[i][2] \notin
             {"NoneType", "int", "long", "float", "str", "unicode", "buffer"}
       \/ /\ last.pkarg = PyStr(last.dtypes[i][1])
          /\ last.dtypes[i][2] \notin {"int", "long"}

LabelsGiven == [i \in 1..Len(last.dtypes) |-> last.dtypes[i][1]]

\* C8: a create with valid types, distinct labels and a primary key that is
\* None or the label of an integer column succeeds where the table does not
\* exist yet, and every successful create returns a handle whose columns are
\* the given labels in the given order and whose primary key is the designated
\* label, or None when none of the columns was designated.
C8_CreateReflects ==
    /\ (/\ last.op = "create"
        /\ ~last.pre.exists
        /\ ~BadColumnSpec
        /\ Len(last.dtypes) > 0
        /\ \A i, j \in 1..Len(last.dtypes) : LabelsGiven[i] = LabelsGiven[j] => i = j)
       => last.status = "ok"
    /\ (last.op = "create" /\ last.status = "ok")
       => /\ tbl.live
          /\ tbl.columns = LabelsGiven
          /\ tbl.pk = IF last.pkarg.t # "None" /\ last.pkarg.s \in Range(LabelsGiven)
                      THEN last.pkarg ELSE PyNone

C8_Witness ==
    /\ last.op = "create"
    /\ last.status = "ok"
    /\ Len(last.dtypes) = 2
    /\ last.pkarg = PyStr(last.dtypes[2][1])
    /\ tbl.pk = last.pkarg

\* a key that is no integer, no slice, no text and no sequence of texts
InvalidKey(key) ==
    /\ key.t \notin {"int", "slice", "str"}
    /\ ~(key.t = "list" /\ \A i \in 1..Len(key.items) : key.items[i].t = "str")

\* C9: handle[key] with a key that is no integer, no slice, no text and no
\* sequence of texts fails with a ValueError naming the invalid key, and issues
\* no query.
C9_InvalidKeyRejected ==
    (last.op = "getitem" /\ InvalidKey(last.arg))
    => /\ last.status = "ValueError"
       /\ last.msg = "invalid key"
       /\ last.issued = 0

\* C10: an insert whose rows all pass the argument validation is atomic: when
\* the execution for the k-th row fails at the store, the error propagates and
\* the store is exactly as before the call; when none fails, one row per given
\* row is stored after the rows that were there.
C10_BulkAtomic ==
    (last.op = "insert" /\ last.status \in {"ok", "StorageError"})
    => LET n == Len(InsertRows(last.arg).rows)
       IN IF last.status = "StorageError"
          THEN /\ last.issued \in 1..n
               /\ db = last.pre
          ELSE /\ last.issued = n
               /\ Len(db.rows) = Len(last.pre.rows) + n
               /\ SubSeq(db.rows, 1, Len(last.pre.rows)) = last.pre.rows

C10_Witness ==
    /\ last.op = "insert"
    /\ last.status = "StorageError"
    /\ last.pre.exists
    /\ last.issued = 2
    /\ \A i \in 1..Len(last.arg.items) : last.arg.items[i].t = "dict"
    /\ db = last.pre

(* ------------------------- schema specification ------------------------ *)
DDLLabels == {"id", "x"}
DDLTypes == {"NoneType", "int", "float", "object"}
PyTypes == {"NoneType", "int", "long", "float", "str", "unicode", "buffer", "object"}
\* column specs of up to MaxCols columns, and one column of every python type
DDLSpecs ==
    SeqsOf(DDLLabels \X DDLTypes, 0, MaxCols)
    \cup {<<<<l, dtype>>>> : l \in DDLLabels, dtype \in PyTypes}
DDLKeys == {PyNone} \cup {PyStr(l) : l \in DDLLabels}

NextDDL ==
    \/ \E dtypes \in DDLSpecs, primary_key \in DDLKeys : Create(dtypes, primary_key)
    \/ Drop
    \/ Return

SpecDDL == Init /\ [][NextDDL]_vars

====
